---- MODULE Spec2Model ----
(***************************************************************************)
(* Model of cleanup.py: a directory walker that strips comments from       *)
(* .html/.css/.js files with regular expressions and writes a path header  *)
(* as the first line.  Text is a sequence of one-character strings.        *)
(***************************************************************************)
EXTENDS Integers, Sequences, FiniteSets

VARIABLES
    cc_ext,          \* clean_content: file_extension argument
    cc_in,           \* clean_content: content argument
    cc_out,          \* clean_content: local `cleaned`
    cc_idx,          \* clean_content: number of regexes of regex_list applied
    cc_pc,           \* clean_content: "loop" | "returned" | "idle"
    disk,            \* the files under the root: path -> bytes
    disk0,           \* disk when the program started
    pf_path,         \* process_file: file_path, relative to root_dir
    pf_run,          \* process_file: number of calls that returned
    pf_before,       \* process_file: the file's bytes when the last call began
    pf_final,        \* process_file: final_content of the last call
    pf_wrote,        \* process_file: the last call called write_file_content
    pf_ret,          \* process_file: the last call's return value
    isDir,           \* main: target_directory.is_dir()
    pc,              \* main: "main" | "walk" | "exit" | "idle"
    exitStatus,      \* main: the process's exit status, -1 while it runs
    pdCalls,         \* main: number of calls of process_directory
    todo,            \* process_directory: items rglob has yet to yield
    processed_count, \* process_directory: local of that name
    changed_count,   \* process_directory: local of that name
    error_count,     \* process_directory: local of that name
    summary,         \* process_directory: the counts printed at the end
    calls,           \* history: path -> number of process_file calls
    opened,          \* history: paths read_file_content tried to read
    readFailed,      \* history: paths whose read raised
    writeFailed,     \* history: paths for which write_file_content returned False
    raised,          \* history: paths whose process_file call raised
    stdout,          \* lines printed to sys.stdout: <<message, path>>
    stderr,          \* lines printed to sys.stderr: <<message, path>>
    faults           \* I/O faults the environment may still inject

ccvars == <<cc_ext, cc_in, cc_out, cc_idx, cc_pc>>
pfvars == <<pf_path, pf_run, pf_before, pf_final, pf_wrote, pf_ret>>
mainvars == <<isDir, pc, exitStatus, pdCalls>>
countvars == <<processed_count, changed_count, error_count, summary>>
histvars == <<calls, opened, readFailed, writeFailed, raised>>
logvars == <<stdout, stderr>>
runvars == <<mainvars, todo, countvars, histvars, logvars, faults>>
vars == <<ccvars, disk, disk0, pfvars, runvars>>

\* ------------------------------------------------------------------ bounds

\* Longest input text, counted in pieces of Pieces(ext).
MaxPieces == 4

\* Calls of process_file on the same file, one after the other.
MaxRuns == 2

\* Files under the root in one run of the program.
MaxFiles == 2

\* I/O faults (a read, a write or a print that raises) in one run.
MaxFaults == 1

\* ------------------------------------------------------------------ text

Min(S) == CHOOSE x \in S : \A y \in S : x <= y

Tail2(s, i) == SubSeq(s, i, Len(s))

\* F(e), with e evaluated once
Strict(F(_), e) == CHOOSE r \in {F(v) : v \in {e}} : TRUE

RECURSIVE Concat(_)
Concat(ss) == IF ss = <<>> THEN <<>> ELSE Head(ss) \o Concat(Tail(ss))

\* pat occurs in s at index j
MatchAt(s, pat, j) ==
    /\ j >= 1
    /\ j + Len(pat) - 1 <= Len(s)
    /\ \A k \in 1..Len(pat) : s[j + k - 1] = pat[k]

\* least index >= i at which pat occurs in s, 0 when there is none
Find(s, pat, i) ==
    LET C == {j \in i..Len(s) : MatchAt(s, pat, j)}
    IN  IF C = {} THEN 0 ELSE Min(C)

\* ------------------------------------------------------------ configuration

EXT_HTML == <<".", "h", "t", "m", "l">>
EXT_CSS == <<".", "c", "s", "s">>
EXT_JS == <<".", "j", "s">>

\* r'<!--.*?-->' with DOTALL
RE_HTML_BLOCK ==
    [type |-> "delim", open |-> <<"<", "!", "-", "-">>, close |-> <<"-", "-", ">">>]

\* r'/\*.*?\*/' with DOTALL
RE_C_BLOCK == [type |-> "delim", open |-> <<"/", "*">>, close |-> <<"*", "/">>]

\* r'(?<!:)//.*?$' with MULTILINE
RE_JS_LINE == [type |-> "line", open |-> <<"/", "/">>, close |-> <<"\n">>]

COMMENT_REGEX(ext) ==
    CASE ext = EXT_HTML -> <<RE_HTML_BLOCK>>
      [] ext = EXT_CSS -> <<RE_C_BLOCK>>
      [] ext = EXT_JS -> <<RE_C_BLOCK, RE_JS_LINE>>
      [] OTHER -> <<>>

TARGET_EXTENSIONS == {EXT_HTML, EXT_CSS, EXT_JS}

\* ------------------------------------------------------------- regex.sub

\* regex.sub('', s) for open.*?close with DOTALL, resumed at index i: the
\* leftmost open that has a close after it, up to the nearest such close, is
\* dropped and the scan goes on behind it.
RECURSIVE SubDelim(_, _, _, _)
SubDelim(s, open, close, i) ==
    LET FromClose(a, b) ==
            IF b = 0
            THEN Tail2(s, i)
            ELSE SubSeq(s, i, a - 1) \o SubDelim(s, open, close, b + Len(close))
        FromOpen(a) ==
            IF a = 0
            THEN Tail2(s, i)
            ELSE Strict(LAMBDA b : FromClose(a, b), Find(s, close, a + Len(open)))
    IN  Strict(FromOpen, Find(s, open, i))

\* (?<!:)// matches at index j
LineCommentNoLookbehind(s, j) == MatchAt(s, <<"/", "/">>, j)

LineCommentAt(s, j) ==
    /\ MatchAt(s, <<"/", "/">>, j)
    /\ (j = 1 \/ s[j - 1] # ":")

\* index of the '$' that ends .*? begun at index j: the next "\n", or the end
LineEnd(s, j) ==
    LET C == {e \in j..Len(s) : s[e] = "\n"}
    IN  IF C = {} THEN Len(s) + 1 ELSE Min(C)

\* least index >= i at which (?<!:)// matches, 0 when there is none
FindLineComment(s, i) ==
    LET C == {j \in i..Len(s) : LineCommentAt(s, j)}
    IN  IF C = {} THEN 0 ELSE Min(C)

\* regex.sub('', s) for (?<!:)//.*?$ with MULTILINE, resumed at index i
RECURSIVE SubLine(_, _)
SubLine(s, i) ==
    LET FromEnd(a, e) == SubSeq(s, i, a - 1) \o SubLine(s, e)
        FromStart(a) ==
            IF a = 0
            THEN Tail2(s, i)
            ELSE Strict(LAMBDA e : FromEnd(a, e), LineEnd(s, a + 2))
    IN  Strict(FromStart, FindLineComment(s, i))

regex_sub(regex, s) ==
    IF regex.type = "delim"
    THEN Strict(LAMBDA r : SubDelim(s, r.open, r.close, 1), regex)
    ELSE SubLine(s, 1)

\* clean_content: the regexes of the extension's list, applied in list order
RECURSIVE ApplyRegexes(_, _)
ApplyRegexes(regex_list, cleaned) ==
    IF regex_list = <<>>
    THEN cleaned
    ELSE Strict(LAMBDA c : ApplyRegexes(Tail(regex_list), c),
                regex_sub(Head(regex_list), cleaned))

clean_content(content, ext) ==
    Strict(LAMBDA regex_list : ApplyRegexes(regex_list, content),
           COMMENT_REGEX(ext))

\* ------------------------------------------------------------------ paths

\* A path relative to the traversal root is the sequence of its components
\* (each a text); file_path.relative_to(root_dir).as_posix() joins them.
RECURSIVE as_posix(_)
as_posix(parts) ==
    IF Len(parts) = 0 THEN <<>>
    ELSE IF Len(parts) = 1 THEN parts[1]
    ELSE parts[1] \o <<"/">> \o as_posix(Tail(parts))

\* str.lower(), for the letters the file names use
LowerChar(c) ==
    CASE c = "B" -> "b"
      [] c = "J" -> "j"
      [] c = "S" -> "s"
      [] OTHER -> c

lower(s) == [k \in 1..Len(s) |-> LowerChar(s[k])]

\* PurePath.suffix: from the last dot of the name, unless that dot is the first
\* or the last character
suffix(name) ==
    LET D == {k \in 1..Len(name) : name[k] = "."}
        i == IF D = {} THEN 0 ELSE CHOOSE k \in D : \A d \in D : d <= k
    IN  IF 1 < i /\ i < Len(name) THEN SubSeq(name, i, Len(name)) ELSE <<>>

file_extension(parts) == Strict(lower, suffix(parts[Len(parts)]))

\* ----------------------------------------------------------------- header

None == <<"None">>

\* HEADER_COMMENT_FORMAT[ext], split at its one placeholder
HEADER_COMMENT_FORMAT(ext) ==
    CASE ext = EXT_HTML ->
            [pre |-> <<"<", "!", "-", "-", " ">>, post |-> <<" ", "-", "-", ">">>]
      [] ext \in {EXT_CSS, EXT_JS} ->
            [pre |-> <<"/", "*", " ">>, post |-> <<" ", "*", "/">>]

HEADER_COMMENT_KEYS == {EXT_HTML, EXT_CSS, EXT_JS}

\* create_header with the file's name in place of its relative path
create_header_name_only(parts, ext) ==
    IF ext \in HEADER_COMMENT_KEYS
    THEN HEADER_COMMENT_FORMAT(ext).pre \o parts[Len(parts)]
            \o HEADER_COMMENT_FORMAT(ext).post
    ELSE None

\* create_header: the file was found under root_dir, so relative_to succeeds
create_header(parts, ext) ==
    IF ext \in HEADER_COMMENT_KEYS
    THEN HEADER_COMMENT_FORMAT(ext).pre \o as_posix(parts)
            \o HEADER_COMMENT_FORMAT(ext).post
    ELSE None

\* ------------------------------------------------------------------ codecs

\* Bytes and characters are tokens.  An ASCII character and its byte are the
\* same token; the others are named by their code.
NonAscii == {"xFF", "xC3", "xBF", "xE6", "x97", "xA5", "U+00FF", "U+65E5"}

Pad == "<pad>"

NotPad(x) == x # Pad

\* the byte at index i continues a multi-byte UTF-8 sequence
Continuation(x) == x \in {"xBF", "x97", "xA5"}

\* the byte sequence is well-formed UTF-8: a lead byte has its continuation
\* bytes behind it and a continuation byte its lead byte before it
Utf8Valid(b) ==
    \A i \in 1..Len(b) :
        CASE b[i] = "xFF" -> FALSE
          [] b[i] = "xC3" -> MatchAt(b, <<"xC3", "xBF">>, i)
          [] b[i] = "xE6" -> MatchAt(b, <<"xE6", "x97", "xA5">>, i)
          [] b[i] = "xBF" -> MatchAt(b, <<"xC3", "xBF">>, i - 1)
          [] b[i] = "x97" -> MatchAt(b, <<"xE6", "x97", "xA5">>, i - 1)
          [] b[i] = "xA5" -> MatchAt(b, <<"xE6", "x97", "xA5">>, i - 2)
          [] OTHER -> TRUE

\* one character for each lead byte
Utf8Chars(b) ==
    SelectSeq([i \in 1..Len(b) |->
                  CASE Continuation(b[i]) -> Pad
                    [] b[i] = "xC3" -> "U+00FF"
                    [] b[i] = "xE6" -> "U+65E5"
                    [] OTHER -> b[i]],
              NotPad)

\* bytes.decode('utf-8'): None on a malformed sequence
utf8_decode(b) == IF Utf8Valid(b) THEN Utf8Chars(b) ELSE None

\* bytes.decode('latin-1'): every byte is the character of the same code
Latin1Char(x) ==
    CASE x = "xFF" -> "U+00FF"
      [] x = "xC3" -> "U+00C3"
      [] x = "xBF" -> "U+00BF"
      [] x = "xE6" -> "U+00E6"
      [] x = "x97" -> "U+0097"
      [] x = "xA5" -> "U+00A5"
      [] OTHER -> x

latin1_decode(b) == [k \in 1..Len(b) |-> Latin1Char(b[k])]

\* the UTF-8 bytes of one character, padded to three
Utf8Bytes(c) ==
    CASE c = "U+00FF" -> <<"xC3", "xBF", Pad>>
      [] c = "U+65E5" -> <<"xE6", "x97", "xA5">>
      [] OTHER -> <<c, Pad, Pad>>

\* str.encode('utf-8')
utf8_encode(t) ==
    SelectSeq([i \in 1..(3 * Len(t)) |->
                  Utf8Bytes(t[((i - 1) \div 3) + 1])[((i - 1) % 3) + 1]],
              NotPad)

\* str.encode('latin-1'): None when a character is above U+00FF
Latin1Byte(c) ==
    CASE c = "U+00FF" -> "xFF"
      [] c = "U+00C3" -> "xC3"
      [] c = "U+00BF" -> "xBF"
      [] c = "U+00E6" -> "xE6"
      [] c = "U+0097" -> "x97"
      [] c = "U+00A5" -> "xA5"
      [] OTHER -> c

latin1_encode(t) ==
    IF \E k \in 1..Len(t) : t[k] = "U+65E5"
    THEN None
    ELSE [k \in 1..Len(t) |-> Latin1Byte(t[k])]

encode(t, encoding) ==
    IF encoding = "utf-8" THEN utf8_encode(t) ELSE latin1_encode(t)

\* read_file_content, the read itself succeeding: 'utf-8', then 'latin-1'
read_file_content(b) ==
    IF utf8_decode(b) # None
    THEN [content |-> utf8_decode(b), encoding |-> "utf-8"]
    ELSE [content |-> latin1_decode(b), encoding |-> "latin-1"]

\* Path.write_text(content, encoding=encoding), the open and the write
\* succeeding: open(mode='w') empties the file, then the text is encoded and
\* written.  An unencodable character raises with the file left empty.
write_text(content, encoding) ==
    IF encode(content, encoding) = None
    THEN [ok |-> FALSE, bytes |-> <<>>]
    ELSE [ok |-> TRUE, bytes |-> encode(content, encoding)]

\* ------------------------------------------------------------- process_file

\* the characters str.lstrip() and str.strip() remove
Whitespace == {" ", "\t", "\n", "\r", "\f"}

\* str.lstrip(): from the first character that is no whitespace
lstrip(s) ==
    LET N == {k \in 1..Len(s) : s[k] \notin Whitespace}
    IN  IF N = {} THEN <<>> ELSE SubSeq(s, Min(N), Len(s))

\* str.rstrip(): up to the last character that is no whitespace
rstrip(s) ==
    LET N == {k \in 1..Len(s) : s[k] \notin Whitespace}
    IN  IF N = {} THEN <<>> ELSE SubSeq(s, 1, CHOOSE k \in N : \A j \in N : j <= k)

strip(s) == Strict(rstrip, lstrip(s))

\* final_content with the header left out of the first line
final_content_no_newline(header_comment, cleaned) ==
    header_comment \o lstrip(cleaned)

\* final_content with cleaned_content_no_header not left-stripped
final_content_no_lstrip(header_comment, cleaned) ==
    header_comment \o <<"\n">> \o cleaned

\* steps 3 and 4 of process_file
final_content(header_comment, cleaned) ==
    IF header_comment = None
    THEN cleaned
    ELSE header_comment \o <<"\n">> \o lstrip(cleaned)

\* process_file up to the comparison of step 5, for a file that was read
process_file(parts, bytes) ==
    LET Step5(read, cleaned, final) ==
            [original_content |-> read.content,
             encoding |-> read.encoding,
             cleaned |-> cleaned,
             final_content |-> final,
             changed |-> final # read.content,
             message |-> IF strip(cleaned) # strip(read.content)
                         THEN "Removed comments and updated header"
                         ELSE "Updated header"]
        Step4(read, cleaned, header_comment) ==
            Strict(LAMBDA final : Step5(read, cleaned, final),
                   final_content(header_comment, cleaned))
        Step3(ext, read, cleaned) ==
            Strict(LAMBDA header_comment : Step4(read, cleaned, header_comment),
                   create_header(parts, ext))
        Step2(ext, read) ==
            Strict(LAMBDA cleaned : Step3(ext, read, cleaned),
                   clean_content(read.content, ext))
        Step1(ext) ==
            Strict(LAMBDA read : Step2(ext, read), read_file_content(bytes))
    IN  Strict(Step1, file_extension(parts))

\* ------------------------------------------------------------------ inputs

N_A_CSS == <<"a", ".", "c", "s", "s">>
N_A_HTML == <<"a", ".", "h", "t", "m", "l">>
N_B_JS == <<".", "B", ".", "J", "S">>
N_D == <<"d">>

P_A_HTML == <<N_A_HTML>>
P_D_A_CSS == <<N_D, N_A_CSS>>
P_D_B_JS == <<N_D, N_B_JS>>

\* one file of each kind
SamplePath(ext) ==
    CASE ext = EXT_HTML -> P_A_HTML
      [] ext = EXT_CSS -> P_D_A_CSS
      [] ext = EXT_JS -> P_D_B_JS

\* The input texts: up to MaxPieces pieces, each a character, a delimiter or a
\* whole comment of the kind (the header of the kind's sample file).
Pieces(ext) ==
    CASE ext = EXT_HTML ->
            {<<"<">>, <<"!", "-", "-">>, <<"-", "-", ">">>, <<"\n">>, <<"a">>,
             create_header(SamplePath(ext), ext)}
      [] ext = EXT_CSS ->
            {<<"/">>, <<"*">>, <<"*", "/">>, <<"\n">>, <<"a">>,
             create_header(SamplePath(ext), ext)}
      [] ext = EXT_JS ->
            {<<"/">>, <<"*">>, <<"*", "/">>, <<":">>, <<"\n">>, <<"a">>,
             create_header(SamplePath(ext), ext)}

PieceTexts(P, n) == UNION {{Concat(ps) : ps \in [1..k -> P]} : k \in 0..n}

\* foo(); // comment
EX_FOO ==
    <<"f", "o", "o", "(", ")", ";", " ", "/", "/", " ",
      "c", "o", "m", "m", "e", "n", "t">>

\* u = "http://example.com";
EX_URL ==
    <<"u", " ", "=", " ", "\"", "h", "t", "t", "p", ":", "/", "/", "e", "x", "a",
      "m", "p", "l", "e", ".", "c", "o", "m", "\"", ";">>

Examples(ext) ==
    IF ext = EXT_JS
    THEN {EX_FOO, EX_URL, EX_FOO \o <<"\n">> \o EX_URL, EX_URL \o <<" ">> \o EX_FOO}
    ELSE {}

Texts(ext) == PieceTexts(Pieces(ext), MaxPieces) \cup Examples(ext)

\* ------------------------------------------- specification: clean_content

CleanIdle ==
    /\ cc_ext = <<>>
    /\ cc_in = <<>>
    /\ cc_out = <<>>
    /\ cc_idx = 0
    /\ cc_pc = "idle"

FileIdle ==
    /\ pf_path = <<>>
    /\ pf_run = 0
    /\ pf_before = <<>>
    /\ pf_final = <<>>
    /\ pf_wrote = FALSE
    /\ pf_ret = FALSE

DiskIdle ==
    /\ disk = <<>>
    /\ disk0 = <<>>

RunIdle ==
    /\ isDir = FALSE
    /\ pc = "idle"
    /\ exitStatus = -1
    /\ pdCalls = 0
    /\ todo = {}
    /\ processed_count = 0
    /\ changed_count = 0
    /\ error_count = 0
    /\ summary = None
    /\ calls = <<>>
    /\ opened = {}
    /\ readFailed = {}
    /\ writeFailed = {}
    /\ raised = {}
    /\ stdout = {}
    /\ stderr = {}
    /\ faults = 0

CleanInit ==
    /\ cc_ext \in TARGET_EXTENSIONS
    /\ cc_in \in Texts(cc_ext)
    /\ cc_out = cc_in
    /\ cc_idx = 0
    /\ cc_pc = "loop"
    /\ DiskIdle
    /\ FileIdle
    /\ RunIdle

\* one iteration of `for regex in regex_list`
CleanStep ==
    /\ cc_pc = "loop"
    /\ cc_idx < Len(COMMENT_REGEX(cc_ext))
    /\ cc_out' = regex_sub(COMMENT_REGEX(cc_ext)[cc_idx + 1], cc_out)
    /\ cc_idx' = cc_idx + 1
    /\ UNCHANGED <<cc_ext, cc_in, cc_pc, disk, disk0, pfvars, runvars>>

\* `return cleaned`
CleanReturn ==
    /\ cc_pc = "loop"
    /\ cc_idx = Len(COMMENT_REGEX(cc_ext))
    /\ cc_pc' = "returned"
    /\ UNCHANGED <<cc_ext, cc_in, cc_out, cc_idx, disk, disk0, pfvars, runvars>>

CleanNext == CleanStep \/ CleanReturn

SpecClean == CleanInit /\ [][CleanNext]_vars

\* -------------------------------------------- specification: process_file

\* One recognized file, holding any of the input texts of its kind, on which
\* process_file is called up to MaxRuns times; the reads and writes succeed.
FileInit ==
    /\ CleanIdle
    /\ RunIdle
    /\ pf_path \in {SamplePath(ext) : ext \in TARGET_EXTENSIONS}
    /\ \E t \in Texts(file_extension(pf_path)) :
            disk = [p \in {pf_path} |-> utf8_encode(t)]
    /\ disk0 = disk
    /\ pf_run = 0
    /\ pf_before = <<>>
    /\ pf_final = <<>>
    /\ pf_wrote = FALSE
    /\ pf_ret = FALSE

\* process_file(file_path, root_dir) where final_content equals the content:
\* nothing is written, False is returned
FileUnchanged ==
    /\ pf_path # <<>>
    /\ pf_run < MaxRuns
    /\ \E r \in {process_file(pf_path, disk[pf_path])} :
            /\ ~r.changed
            /\ pf_final' = r.final_content
    /\ pf_before' = disk[pf_path]
    /\ pf_wrote' = FALSE
    /\ pf_ret' = FALSE
    /\ pf_run' = pf_run + 1
    /\ UNCHANGED <<ccvars, disk, disk0, pf_path, runvars>>

\* process_file(file_path, root_dir) where final_content differs: it is
\* written back in the encoding the file was read in
FileWritten ==
    /\ pf_path # <<>>
    /\ pf_run < MaxRuns
    /\ \E r \in {process_file(pf_path, disk[pf_path])} :
       \E w \in {write_text(r.final_content, r.encoding)} :
            /\ r.changed
            /\ pf_final' = r.final_content
            /\ disk' = [disk EXCEPT ![pf_path] = w.bytes]
            /\ pf_ret' = w.ok
    /\ pf_before' = disk[pf_path]
    /\ pf_wrote' = TRUE
    /\ pf_run' = pf_run + 1
    /\ UNCHANGED <<ccvars, disk0, pf_path, runvars>>

FileNext == FileUnchanged \/ FileWritten

SpecFile == FileInit /\ [][FileNext]_vars

\* ----------------------------------------- specification: the whole program

N_GIT == <<".", "g", "i", "t">>
N_VSCODE == <<".", "v", "s", "c", "o", "d", "e">>
N_NODE_MODULES == <<"n", "o", "d", "e", "_", "m", "o", "d", "u", "l", "e", "s">>
N_PYCACHE == <<"_", "_", "p", "y", "c", "a", "c", "h", "e", "_", "_">>
N_VENV == <<"v", "e", "n", "v">>
N_DOT_VENV == <<".", "v", "e", "n", "v">>
N_DIST == <<"d", "i", "s", "t">>
N_BUILD == <<"b", "u", "i", "l", "d">>
N_ASSETS == <<"a", "s", "s", "e", "t", "s">>

SKIP_DIRS ==
    {N_GIT, N_VSCODE, N_NODE_MODULES, N_PYCACHE, N_VENV, N_DOT_VENV, N_DIST,
     N_BUILD, N_ASSETS}

N_HIDDEN == <<".", "h", "i", "d", "d", "e", "n">>
N_LIB_JS == <<"l", "i", "b", ".", "j", "s">>
N_SCRIPT_JS == <<"s", "c", "r", "i", "p", "t", ".", "j", "s">>
N_N_TXT == <<"n", ".", "t", "x", "t">>
N_NIHON_CSS == <<"U+65E5", ".", "c", "s", "s">>

P_D_NODE_LIB == <<N_D, N_NODE_MODULES, N_LIB_JS>>
P_HIDDEN_SCRIPT == <<N_HIDDEN, N_SCRIPT_JS>>
P_N_TXT == <<N_N_TXT>>
P_NIHON_CSS == <<N_NIHON_CSS>>

\* the files a tree may hold
CandidateFiles ==
    {P_A_HTML, P_D_B_JS, P_D_NODE_LIB, P_HIDDEN_SCRIPT, P_N_TXT, P_NIHON_CSS}

\* /*c*/a
T_BLOCK == <<"/", "*", "c", "*", "/", "a">>

\* what a candidate file may hold when the program starts
InitialBytes(parts) ==
    CASE parts = P_A_HTML ->
            {<<"<", "!", "-", "-", "c", "-", "-", ">", "a">>,
             utf8_encode(create_header(parts, EXT_HTML)) \o <<"\n", "a">>}
      [] parts = P_D_B_JS -> {<<"a", ";", " ", "/", "/", "c", "\n">>}
      [] parts = P_NIHON_CSS -> {<<"xFF">> \o T_BLOCK, T_BLOCK}
      [] OTHER -> {T_BLOCK}

\* the directories of a tree: the proper prefixes of its files' paths
DirsOf(files) ==
    UNION {{SubSeq(f, 1, k) : k \in 1..(Len(f) - 1)} : f \in files}

IsDirItem(item) == item \notin DOMAIN disk

\* the check on item.relative_to(root_dir).parts[:-1], hidden names let through
part_of_skipped_dir_names_only(item) ==
    \E k \in 1..(Len(item) - 1) : item[k] \in SKIP_DIRS

\* part.startswith('.') or part in SKIP_DIRS, for a part of parts[:-1]
part_of_skipped_dir(item) ==
    \E k \in 1..(Len(item) - 1) : item[k] \in SKIP_DIRS \/ item[k][1] = "."

\* the proper prefixes of b: what a write that raised half-way leaves
Prefixes(b) == {SubSeq(b, 1, k) : k \in 0..(Len(b) - 1)}

RunInit ==
    /\ CleanIdle
    /\ FileIdle
    /\ isDir \in BOOLEAN
    /\ \E files \in SUBSET CandidateFiles :
            /\ Cardinality(files) <= MaxFiles
            /\ disk \in [files -> UNION {InitialBytes(f) : f \in files}]
            /\ \A f \in files : disk[f] \in InitialBytes(f)
            /\ calls = [f \in files |-> 0]
    /\ disk0 = disk
    /\ pc = "main"
    /\ exitStatus = -1
    /\ pdCalls = 0
    /\ todo = {}
    /\ processed_count = 0
    /\ changed_count = 0
    /\ error_count = 0
    /\ summary = None
    /\ opened = {}
    /\ readFailed = {}
    /\ writeFailed = {}
    /\ raised = {}
    /\ stdout = {}
    /\ stderr = {}
    /\ faults = MaxFaults

\* main, `if not target_directory.is_dir()` taken, but going on to the walk
MainNotDirWalks ==
    /\ pc = "main"
    /\ ~isDir
    /\ stderr' = stderr \cup {<<"Error: Directory not found", <<>>>>}
    /\ pdCalls' = pdCalls + 1
    /\ todo' = DOMAIN disk \cup DirsOf(DOMAIN disk)
    /\ pc' = "walk"
    /\ UNCHANGED <<ccvars, disk, disk0, pfvars, isDir, exitStatus, countvars,
                   histvars, stdout, faults>>

\* main, `if not target_directory.is_dir()` taken: sys.exit(1)
MainNotDir ==
    /\ pc = "main"
    /\ ~isDir
    /\ stderr' = stderr \cup {<<"Error: Directory not found", <<>>>>}
    /\ exitStatus' = 1
    /\ pc' = "exit"
    /\ UNCHANGED <<ccvars, disk, disk0, pfvars, isDir, pdCalls, todo, countvars,
                   histvars, stdout, faults>>

\* main calls process_directory, which sets its counters and prints its banner
MainWalk ==
    /\ pc = "main"
    /\ isDir
    /\ pdCalls' = pdCalls + 1
    /\ todo' = DOMAIN disk \cup DirsOf(DOMAIN disk)
    /\ processed_count' = 0
    /\ changed_count' = 0
    /\ error_count' = 0
    /\ stdout' = stdout \cup {<<"Starting processing in directory", <<>>>>}
    /\ pc' = "walk"
    /\ UNCHANGED <<ccvars, disk, disk0, pfvars, isDir, exitStatus, summary,
                   histvars, stderr, faults>>

\* loop body, `if item.is_dir(): continue`
VisitDir(item) ==
    /\ pc = "walk"
    /\ IsDirItem(item)
    /\ todo' = todo \ {item}
    /\ UNCHANGED <<ccvars, disk, disk0, pfvars, mainvars, countvars, histvars,
                   logvars, faults>>

\* loop body, `if part_of_skipped_dir: continue`
VisitSkipped(item) ==
    /\ pc = "walk"
    /\ ~IsDirItem(item)
    /\ part_of_skipped_dir(item)
    /\ todo' = todo \ {item}
    /\ UNCHANGED <<ccvars, disk, disk0, pfvars, mainvars, countvars, histvars,
                   logvars, faults>>

\* loop body, a file whose suffix is not in TARGET_EXTENSIONS
VisitOther(item) ==
    /\ pc = "walk"
    /\ ~IsDirItem(item)
    /\ ~part_of_skipped_dir(item)
    /\ file_extension(item) \notin TARGET_EXTENSIONS
    /\ todo' = todo \ {item}
    /\ UNCHANGED <<ccvars, disk, disk0, pfvars, mainvars, countvars, histvars,
                   logvars, faults>>

\* the item is a file the loop hands to process_file
Included(item) ==
    /\ pc = "walk"
    /\ ~IsDirItem(item)
    /\ ~part_of_skipped_dir(item)
    /\ file_extension(item) \in TARGET_EXTENSIONS

\* what every call of process_file(item, root_dir) does first
Called(item) ==
    /\ todo' = todo \ {item}
    /\ processed_count' = processed_count + 1
    /\ calls' = [calls EXCEPT ![item] = @ + 1]
    /\ opened' = opened \cup {item}

\* process_file: final_content equals the content, nothing is written
ProcessUnchanged(item) ==
    /\ Included(item)
    /\ \E r \in {process_file(item, disk[item])} : ~r.changed
    /\ Called(item)
    /\ UNCHANGED <<ccvars, disk, disk0, pfvars, mainvars, changed_count,
                   error_count, summary, readFailed, writeFailed, raised,
                   logvars, faults>>

\* process_file: final_content differs and is written back; True is returned
ProcessWritten(item) ==
    /\ Included(item)
    /\ \E r \in {process_file(item, disk[item])} :
       \E w \in {write_text(r.final_content, r.encoding)} :
           /\ r.changed
           /\ w.ok
           /\ disk' = [disk EXCEPT ![item] = w.bytes]
           /\ stdout' = stdout \cup {<<r.message, item>>}
    /\ Called(item)
    /\ changed_count' = changed_count + 1
    /\ UNCHANGED <<ccvars, disk0, pfvars, mainvars, error_count, summary,
                   readFailed, writeFailed, raised, stderr, faults>>

\* process_file: final_content differs but cannot be encoded in the encoding
\* the file was read in; write_text has emptied the file when it raises
ProcessUnencodable(item) ==
    /\ Included(item)
    /\ \E r \in {process_file(item, disk[item])} :
       \E w \in {write_text(r.final_content, r.encoding)} :
           /\ r.changed
           /\ ~w.ok
           /\ disk' = [disk EXCEPT ![item] = w.bytes]
    /\ Called(item)
    /\ writeFailed' = writeFailed \cup {item}
    /\ stderr' = stderr \cup {<<"Error writing back to", item>>}
    /\ UNCHANGED <<ccvars, disk0, pfvars, mainvars, changed_count, error_count,
                   summary, readFailed, raised, stdout, faults>>

\* process_file: read_text raises an OSError, read_file_content prints it and
\* returns (None, None), process_file returns False
ProcessReadError(item) ==
    /\ Included(item)
    /\ faults > 0
    /\ faults' = faults - 1
    /\ Called(item)
    /\ readFailed' = readFailed \cup {item}
    /\ stderr' = stderr \cup {<<"Error reading", item>>}
    /\ UNCHANGED <<ccvars, disk, disk0, pfvars, mainvars, changed_count,
                   error_count, summary, writeFailed, raised, stdout>>

\* process_file: write_text raises an OSError, at the open (the file is as it
\* was) or during the write (the file holds a prefix of the new bytes);
\* write_file_content prints it and returns False
ProcessWriteError(item) ==
    /\ Included(item)
    /\ faults > 0
    /\ faults' = faults - 1
    /\ \E r \in {process_file(item, disk[item])} :
       \E w \in {write_text(r.final_content, r.encoding)} :
           /\ r.changed
           /\ w.ok
           /\ \E left \in {disk[item]} \cup Prefixes(w.bytes) :
                    disk' = [disk EXCEPT ![item] = left]
    /\ Called(item)
    /\ writeFailed' = writeFailed \cup {item}
    /\ stderr' = stderr \cup {<<"Error writing back to", item>>}
    /\ UNCHANGED <<ccvars, disk0, pfvars, mainvars, changed_count, error_count,
                   summary, readFailed, raised, stdout>>

\* process_file raises after the write, at its print, and the exception ends
\* process_directory
ProcessRaisedAborts(item) ==
    /\ Included(item)
    /\ faults > 0
    /\ faults' = faults - 1
    /\ \E r \in {process_file(item, disk[item])} :
       \E w \in {write_text(r.final_content, r.encoding)} :
           /\ r.changed
           /\ w.ok
           /\ disk' = [disk EXCEPT ![item] = w.bytes]
    /\ Called(item)
    /\ raised' = raised \cup {item}
    /\ pc' = "exit"
    /\ exitStatus' = 1
    /\ UNCHANGED <<ccvars, disk0, pfvars, isDir, pdCalls, changed_count,
                   error_count, summary, readFailed, writeFailed, logvars>>

\* process_file raises after the write, at its print (a closed or unencodable
\* stdout); process_directory's `except Exception` counts and reports it
ProcessRaised(item) ==
    /\ Included(item)
    /\ faults > 0
    /\ faults' = faults - 1
    /\ \E r \in {process_file(item, disk[item])} :
       \E w \in {write_text(r.final_content, r.encoding)} :
           /\ r.changed
           /\ w.ok
           /\ disk' = [disk EXCEPT ![item] = w.bytes]
    /\ Called(item)
    /\ raised' = raised \cup {item}
    /\ error_count' = error_count + 1
    /\ stderr' = stderr \cup {<<"Critical error processing", item>>}
    /\ UNCHANGED <<ccvars, disk0, pfvars, mainvars, changed_count, summary,
                   readFailed, writeFailed, stdout>>

\* the loop is over: the summary is printed, process_directory and main return
Finish ==
    /\ pc = "walk"
    /\ todo = {}
    /\ summary' = <<processed_count, changed_count, error_count>>
    /\ stdout' = stdout \cup {<<"Processing finished.", <<>>>>}
    /\ exitStatus' = 0
    /\ pc' = "exit"
    /\ UNCHANGED <<ccvars, disk, disk0, pfvars, isDir, pdCalls, todo,
                   processed_count, changed_count, error_count, histvars, stderr,
                   faults>>

\* one iteration of `for item in root_dir.rglob('*')`, for any item left
LoopDir == \E item \in todo : VisitDir(item)
LoopSkipped == \E item \in todo : VisitSkipped(item)
LoopOther == \E item \in todo : VisitOther(item)
LoopUnchanged == \E item \in todo : ProcessUnchanged(item)
LoopWritten == \E item \in todo : ProcessWritten(item)
LoopUnencodable == \E item \in todo : ProcessUnencodable(item)
LoopReadError == \E item \in todo : ProcessReadError(item)
LoopWriteError == \E item \in todo : ProcessWriteError(item)
LoopRaised == \E item \in todo : ProcessRaised(item)

RunNext ==
    \/ MainNotDir
    \/ MainWalk
    \/ LoopDir
    \/ LoopSkipped
    \/ LoopOther
    \/ LoopUnchanged
    \/ LoopWritten
    \/ LoopUnencodable
    \/ LoopReadError
    \/ LoopWriteError
    \/ LoopRaised
    \/ Finish

SpecRun == RunInit /\ [][RunNext]_vars

\* The loop runs in one thread without waiting for anything: a step that can
\* be taken is taken.
FairRun == SpecRun /\ WF_vars(RunNext)

\* ------------------------------------------------- claims on clean_content

\* t is one whole match of the delimited pattern
IsComment(t, regex) ==
    /\ Len(t) >= Len(regex.open) + Len(regex.close)
    /\ MatchAt(t, regex.open, 1)
    /\ MatchAt(t, regex.close, Len(t) - Len(regex.close) + 1)

Occurs(t, s) == Find(s, t, 1) # 0

\* C3 (as claimed): for .html and .css, no substring of the input that matches
\* the kind's comment pattern occurs in the text clean_content returns.
C3_MatchesAbsent ==
    (cc_pc = "returned" /\ cc_ext \in {EXT_HTML, EXT_CSS}) =>
        \A i \in 1..Len(cc_in) : \A j \in i..Len(cc_in) :
            IsComment(SubSeq(cc_in, i, j), COMMENT_REGEX(cc_ext)[1]) =>
                ~Occurs(SubSeq(cc_in, i, j), cc_out)

\* the lines of s, split at "\n"
RECURSIVE SplitLines(_)
SplitLines(s) ==
    LET e == LineEnd(s, 1)
    IN  IF e > Len(s) THEN <<s>>
        ELSE <<SubSeq(s, 1, e - 1)>> \o SplitLines(Tail2(s, e + 1))

RECURSIVE JoinLines(_)
JoinLines(ls) ==
    IF Len(ls) = 1 THEN ls[1] ELSE ls[1] \o <<"\n">> \o JoinLines(Tail(ls))

\* a line, cut at its first "//" that no colon precedes
CutLine(l) ==
    LET C == {j \in 1..(Len(l) - 1) :
                 l[j] = "/" /\ l[j + 1] = "/" /\ (j = 1 \/ l[j - 1] # ":")}
    IN  IF C = {} THEN l ELSE SubSeq(l, 1, Min(C) - 1)

CutLines(s) ==
    LET ls == SplitLines(s)
    IN  JoinLines([k \in 1..Len(ls) |-> CutLine(ls[k])])

\* C4: for .js, clean_content removes the block comments first and then cuts
\* every line of what is left at its first "//" that no colon precedes, keeping
\* the line break; "foo(); // comment" becomes "foo(); " and the line holding
\* "http://example.com" stays as it is.
C4_ScriptLineComments ==
    /\ (cc_ext = EXT_JS /\ cc_idx >= 1) =>
            \E mid \in {SubDelim(cc_in, <<"/", "*">>, <<"*", "/">>, 1)} :
                /\ cc_idx = 1 => cc_out = mid
                /\ cc_idx = 2 => cc_out = CutLines(mid)
    /\ (cc_pc = "returned" /\ cc_in = EX_FOO) =>
            cc_out = <<"f", "o", "o", "(", ")", ";", " ">>
    /\ (cc_pc = "returned" /\ cc_in = EX_URL) => cc_out = cc_in

C4_Witness ==
    /\ cc_pc = "returned"
    /\ cc_in = EX_URL \o <<" ">> \o EX_FOO
    /\ cc_out = EX_URL \o <<" ", "f", "o", "o", "(", ")", ";", " ">>

\* -------------------------------------------------- claims on process_file

\* line 1 of t, without its line break
FirstLine(t) == SubSeq(t, 1, LineEnd(t, 1) - 1)

\* what follows line 1 and its line break
AfterFirstLine(t) == Tail2(t, LineEnd(t, 1) + 1)

\* the header of each sample file, written out
ExpectedHeader(parts) ==
    CASE parts = P_A_HTML ->
            <<"<", "!", "-", "-", " ", "a", ".", "h", "t", "m", "l", " ", "-", "-", ">">>
      [] parts = P_D_A_CSS ->
            <<"/", "*", " ", "d", "/", "a", ".", "c", "s", "s", " ", "*", "/">>
      [] parts = P_D_B_JS ->
            <<"/", "*", " ", "d", "/", ".", "B", ".", "J", "S", " ", "*", "/">>

PfExt == file_extension(pf_path)
PfBefore == read_file_content(pf_before).content
PfNow == read_file_content(disk[pf_path]).content

\* C1: whenever process_file writes a file, line 1 of what it writes is the
\* kind's header filled with the relative path, nothing precedes it, and the
\* rest is the comment-stripped text without its leading whitespace.
C1_HeaderFirstLine ==
    (pf_run >= 1 /\ pf_wrote) =>
        /\ pf_final = PfNow
        /\ LineEnd(pf_final, 1) <= Len(pf_final)
        /\ FirstLine(pf_final) = ExpectedHeader(pf_path)
        /\ AfterFirstLine(pf_final) = lstrip(clean_content(PfBefore, PfExt))
        /\ AfterFirstLine(pf_final) # <<>> =>
                AfterFirstLine(pf_final)[1] \notin Whitespace

C1_Witness ==
    /\ pf_run = 1
    /\ pf_wrote
    /\ pf_path = P_D_A_CSS
    /\ PfBefore = <<"\n">> \o ExpectedHeader(P_D_A_CSS) \o <<"\n", "a">>
    /\ PfNow = ExpectedHeader(P_D_A_CSS) \o <<"\n", "a">>

\* t holds a span that one of the kind's comment patterns matches
HasCommentSpan(t, ext) ==
    \E k \in 1..Len(COMMENT_REGEX(ext)) :
        LET regex == COMMENT_REGEX(ext)[k]
        IN  IF regex.type = "delim"
            THEN \E a \in 1..Len(t) :
                    /\ MatchAt(t, regex.open, a)
                    /\ Find(t, regex.close, a + Len(regex.open)) # 0
            ELSE \E j \in 1..Len(t) : LineCommentAt(t, j)

NoOp ==
    /\ ~pf_wrote
    /\ pf_ret = FALSE
    /\ pf_final = PfBefore
    /\ disk[pf_path] = pf_before

\* C2 (as claimed): a file whose content starts with its header line and whose
\* remaining content holds no span matching the comment patterns is left alone.
C2_HeaderedNoOp ==
    (/\ pf_run >= 1
     /\ FirstLine(PfBefore) = ExpectedHeader(pf_path)
     /\ ~HasCommentSpan(AfterFirstLine(PfBefore), PfExt)) => NoOp

\* C2 (amended): a file whose content is its header line, a line break and
\* remaining content that does not begin with whitespace and holds no span
\* matching the comment patterns is left alone.
C2_HeaderedTrimmedNoOp ==
    (/\ pf_run >= 1
     /\ FirstLine(PfBefore) = ExpectedHeader(pf_path)
     /\ LineEnd(PfBefore, 1) <= Len(PfBefore)
     /\ ~HasCommentSpan(AfterFirstLine(PfBefore), PfExt)
     /\ AfterFirstLine(PfBefore) # <<>> =>
            AfterFirstLine(PfBefore)[1] \notin Whitespace) => NoOp

C2_Witness ==
    /\ pf_run = 1
    /\ pf_path = P_D_B_JS
    /\ PfBefore = ExpectedHeader(P_D_B_JS) \o <<"\n", "a", ":">>
    /\ NoOp

\* C7 (as claimed): a call of process_file on a file that an earlier call has
\* transformed computes what is on disk, writes nothing and returns False.
C7_SecondRunNoOp ==
    pf_run >= 2 => NoOp

\* ----------------------------------------------- claims on the whole program

\* the candidate files below a directory of SKIP_DIRS or a hidden directory
SkippedCandidates == {P_D_NODE_LIB, P_HIDDEN_SCRIPT}

\* the candidate files the walk hands to process_file
IncludedCandidates == {P_A_HTML, P_D_B_JS, P_NIHON_CSS}

Named(log, f) == \E line \in log : line[2] = f

\* C5: a file below a directory named in the skip set, or below a hidden
\* directory, is never read, transformed, written or counted as scanned, and
\* holds at every moment what it held when the run began.
C5_SkippedUntouched ==
    /\ \A f \in DOMAIN disk \cap SkippedCandidates :
            /\ calls[f] = 0
            /\ f \notin opened
            /\ disk[f] = disk0[f]
            /\ ~Named(stdout, f)
            /\ ~Named(stderr, f)
    /\ processed_count = Cardinality({f \in DOMAIN disk : calls[f] > 0})
    /\ processed_count <= Cardinality(DOMAIN disk \ SkippedCandidates)

C5_Witness ==
    /\ pc = "exit"
    /\ DOMAIN disk = {P_D_NODE_LIB, P_D_B_JS}
    /\ processed_count = 1
    /\ changed_count = 1
    /\ calls[P_D_NODE_LIB] = 0
    /\ disk[P_D_NODE_LIB] = T_BLOCK

\* C6 (as claimed): a recognized file whose read fails is left as it was, is
\* named in an error line, and is counted in the error counter.
C6_ReadFailureCounted ==
    /\ \A f \in readFailed :
            /\ disk[f] = disk0[f]
            /\ <<"Error reading", f>> \in stderr
    /\ error_count >= Cardinality(readFailed)

\* C8: every included file is handed to process_file exactly once; a call that
\* raises adds exactly one to the error counter and the walk goes on; the run
\* ends, with the summary printed and the scanned count that of the included
\* files.
C8_EveryIncludedFileOnce ==
    /\ [](\A f \in DOMAIN calls : calls[f] <= 1)
    /\ [][raised' # raised =>
            /\ error_count' = error_count + 1
            /\ Cardinality(raised') = Cardinality(raised) + 1
            /\ pc' = "walk"]_vars
    /\ []((pc = "exit" /\ isDir) =>
            /\ \A f \in DOMAIN disk :
                    calls[f] = IF f \in IncludedCandidates THEN 1 ELSE 0
            /\ processed_count = Cardinality(DOMAIN disk \cap IncludedCandidates)
            /\ error_count = Cardinality(raised)
            /\ summary = <<processed_count, changed_count, error_count>>)
    /\ <>(pc = "exit")

C8_Witness ==
    /\ pc = "exit"
    /\ DOMAIN disk = {P_A_HTML, P_D_B_JS}
    /\ Cardinality(raised) = 1
    /\ calls = [f \in DOMAIN disk |-> 1]
    /\ summary = <<2, 1, 1>>

\* the bytes a complete transform of the file's first bytes leaves
Transformed(f) ==
    LET r == process_file(f, disk0[f])
    IN  encode(r.final_content, r.encoding)

\* C9 (as claimed): at every moment every file holds its first bytes or the
\* complete transformed bytes, and a file whose write failed its first bytes.
C9_OriginalOrComplete ==
    \A f \in DOMAIN disk :
        /\ disk[f] = disk0[f] \/ disk[f] = Transformed(f)
        /\ f \in writeFailed => disk[f] = disk0[f]

\* C10: a root that is no directory gives an error message and exit status 1,
\* process_directory is not called and no file is read or written; a root that
\* is a directory gives one call of process_directory and exit status 0,
\* whatever the per-file errors.
C10_EntryPoint ==
    /\ pdCalls <= 1
    /\ ~isDir =>
            /\ pdCalls = 0
            /\ opened = {}
            /\ disk = disk0
            /\ pc = "exit" =>
                    /\ exitStatus = 1
                    /\ <<"Error: Directory not found", <<>>>> \in stderr
    /\ (isDir /\ pc = "exit") =>
            /\ pdCalls = 1
            /\ exitStatus = 0

C10_Witness ==
    /\ pc = "exit"
    /\ ~isDir
    /\ exitStatus = 1
    /\ DOMAIN disk = {P_A_HTML, P_HIDDEN_SCRIPT}

====
